---------------------------- MODULE Spec2Model ----------------------------
(***************************************************************************)
(* The reusable UI kit (Button, Input, Card, Modal, Alert, Tooltip) as a   *)
(* state machine.  One component is mounted by a caller with some props;   *)
(* the user fires events at what was rendered; callbacks run the caller's  *)
(* handler, the caller's state changes, and the component is rendered      *)
(* again from the new props.  Every action ends with that render.          *)
(*                                                                         *)
(* Conventions                                                             *)
(*   - a text is a sequence of characters, <<>> being the empty string;    *)
(*   - an optional prop is <<>> when omitted (undefined) and <<v>> when    *)
(*     given, so a given empty string is << <<>> >>;                       *)
(*   - what a conditional piece of markup renders is <<>> when React       *)
(*     emits nothing and <<node>> when it emits the node;                  *)
(*   - a class name is the tuple of the tokens the template string joins.  *)
(***************************************************************************)
EXTENDS Naturals, Sequences, FiniteSets

VARIABLES
    mounted,    \* the component the caller has mounted
    button,     \* [props, tree] of the Button
    input,      \* [props, tree] of the Input; props.value is the caller's state
    card,       \* [props, tree] of the Card
    modal,      \* [props, tree] of the Modal; props.isOpen is the caller's state
    alert,      \* [shown, props, tree] of the Alert; shown is the caller's state
    tooltip,    \* per instance: [props, isVisible, tree, last]
    badge,      \* [props, tree] of the Badge
    spinner,    \* [props, tree] of the Spinner
    demo,       \* the state slots of ReusableUIComponentsExample
    tut,        \* the state slots of the tutorial components, per file
    api,        \* UserList: apiState and the fetchUsers calls in flight
    lastEvent,  \* the event handled last: [type, target, text]
    calls       \* the callbacks of the caller that the last event invoked

vars == <<mounted, button, input, card, modal, alert, tooltip, badge, spinner,
          demo, tut, api, lastEvent, calls>>

\* the state outside the six interactive components of the kit
appVars == <<badge, spinner, demo, tut, api>>

---------------------------------------------------------------------------
(* Bounded input domains *)

\* longest text typed or passed as a value
MaxLen == 1

Chars == {"a", "b"}

Texts == UNION {[1..n -> Chars] : n \in 0..MaxLen}

\* the texts used for optional string props: the empty string and one more
ShortTexts == {<<>>, <<"a">>}

Opt(S) == {<<>>} \cup {<<s>> : s \in S}

\* JavaScript truthiness of a string | undefined prop, as `title && ...` tests it
Truthy(o) == o /= <<>> /\ o[1] /= <<>>

\* JavaScript truthiness of an optional callback prop: a function is truthy
Provided(o) == o /= <<>>

Event(type, target, text) == [type |-> type, target |-> target, text |-> text]

Call(cb, arg) == [cb |-> cb, arg |-> arg]

---------------------------------------------------------------------------
(* 1. Button *)

ButtonVariants == {"primary", "secondary", "danger", "success"}
ButtonSizes == {"small", "medium", "large"}
ButtonTypes == {"button", "submit", "reset"}

ButtonBaseClasses ==
    "font-medium rounded-lg transition-all duration-200 focus:outline-none focus:ring-2 focus:ring-offset-2"

ButtonVariantClasses ==
    [primary   |-> "bg-blue-600 text-white hover:bg-blue-700 focus:ring-blue-500",
     secondary |-> "bg-gray-600 text-white hover:bg-gray-700 focus:ring-gray-500",
     danger    |-> "bg-red-600 text-white hover:bg-red-700 focus:ring-red-500",
     success   |-> "bg-green-600 text-white hover:bg-green-700 focus:ring-green-500"]

ButtonSizeClasses ==
    [small  |-> "px-3 py-1.5 text-sm",
     medium |-> "px-4 py-2 text-base",
     large  |-> "px-6 py-3 text-lg"]

ButtonDefaults ==
    [children |-> "children", variant |-> "primary", size |-> "medium",
     disabled |-> FALSE, onClick |-> <<>>, type |-> "button",
     className |-> "", loading |-> FALSE]

ButtonProps ==
    [children : {"children"}, variant : ButtonVariants, size : ButtonSizes,
     disabled : BOOLEAN, onClick : Opt({"onClick"}), type : ButtonTypes,
     className : {""}, loading : BOOLEAN]

ButtonDisabledClasses(p) ==
    IF p.disabled \/ p.loading THEN "opacity-50 cursor-not-allowed" ELSE "cursor-pointer"

ButtonRenderLoadingIgnored(p) ==
    [tag       |-> "button",
     type      |-> p.type,
     disabled  |-> p.disabled,
     onClick   |-> p.onClick,
     className |-> <<ButtonBaseClasses, ButtonVariantClasses[p.variant],
                     ButtonSizeClasses[p.size], ButtonDisabledClasses(p), p.className>>,
     content   |-> IF p.loading THEN <<"spinner", "Loading...">> ELSE <<p.children>>]

ButtonRenderLoadingKeepsChildren(p) ==
    [tag       |-> "button",
     type      |-> p.type,
     disabled  |-> p.disabled \/ p.loading,
     onClick   |-> p.onClick,
     className |-> <<ButtonBaseClasses, ButtonVariantClasses[p.variant],
                     ButtonSizeClasses[p.size], ButtonDisabledClasses(p), p.className>>,
     content   |-> IF p.loading THEN <<"spinner", "Loading...", p.children>>
                   ELSE <<p.children>>]

ButtonRender(p) ==
    [tag       |-> "button",
     type      |-> p.type,
     disabled  |-> p.disabled \/ p.loading,
     onClick   |-> p.onClick,
     className |-> <<ButtonBaseClasses, ButtonVariantClasses[p.variant],
                     ButtonSizeClasses[p.size], ButtonDisabledClasses(p), p.className>>,
     content   |-> IF p.loading THEN <<"spinner", "Loading...">> ELSE <<p.children>>]

\* The host's click on a native control: a disabled control dispatches nothing,
\* an enabled one runs the handler bound to onClick if there is one.
NativeClick(el) ==
    IF el.disabled \/ ~Provided(el.onClick) THEN <<>> ELSE <<Call(el.onClick[1], <<>>)>>

ButtonMount(p) == [props |-> p, tree |-> ButtonRender(p)]

\* The user clicks the Button.  onClick is the caller's; it holds no state of
\* the Button's caller here, so the Button is rendered again from the same props.
ButtonClick ==
    /\ mounted = "Button"
    /\ calls' = NativeClick(button.tree)
    /\ button' = ButtonMount(button.props)
    /\ lastEvent' = Event("click", "button", <<>>)
    /\ UNCHANGED <<appVars, mounted, input, card, modal, alert, tooltip>>

\* The caller renders the Button again with other disabled/loading flags.
ButtonRerender(disabled, loading) ==
    /\ mounted = "Button"
    /\ button' = ButtonMount([button.props EXCEPT !.disabled = disabled, !.loading = loading])
    /\ lastEvent' = Event("render", "button", <<>>)
    /\ calls' = <<>>
    /\ UNCHANGED <<appVars, mounted, input, card, modal, alert, tooltip>>

---------------------------------------------------------------------------
(* 2. Input *)

InputTypes == {"text", "email", "password", "number", "tel"}

\* What Math.random().toString(36).substr(2, 9) can yield: any suffix, the
\* empty one included (Math.random() = 0 gives "0").
RandomSuffixes == {<<>>} \cup {<<c>> : c \in Chars}

InputProps ==
    [label : Opt(ShortTexts), placeholder : {""}, value : Texts,
     onChange : {"setInputValue", "noop"}, type : InputTypes,
     error : Opt(ShortTexts), disabled : BOOLEAN, required : BOOLEAN,
     className : {""}, id : Opt(ShortTexts)]

InputDefaults ==
    [label |-> <<>>, placeholder |-> "", value |-> <<>>, onChange |-> "noop",
     type |-> "text", error |-> <<>>, disabled |-> FALSE, required |-> FALSE,
     className |-> "", id |-> <<>>]

InputIdAlwaysGenerated(p, r) == <<"input-">> \o r

\* const inputId = id || `input-${Math.random()...}`
InputId(p, r) == IF Truthy(p.id) THEN p.id[1] ELSE <<"input-">> \o r

InputRenderValidating(p, r) ==
    LET missing == p.required /\ p.value = <<>>
        id      == IF Truthy(p.id) THEN p.id[1] ELSE <<"input-">> \o r
    IN  [className |-> <<"mb-4", p.className>>,
         label     |-> IF Truthy(p.label)
                       THEN <<[htmlFor |-> id, text |-> p.label[1],
                               required |-> p.required]>>
                       ELSE <<>>,
         field     |-> [id          |-> id,
                        type        |-> p.type,
                        value       |-> p.value,
                        placeholder |-> p.placeholder,
                        disabled    |-> p.disabled,
                        required    |-> p.required,
                        className   |-> <<"w-full px-3 py-2 border rounded-md shadow-sm focus:outline-none focus:ring-2 focus:ring-blue-500 focus:border-blue-500",
                                          IF Truthy(p.error) \/ missing THEN "border-red-300" ELSE "border-gray-300",
                                          IF p.disabled THEN "bg-gray-100 cursor-not-allowed" ELSE "bg-white">>],
         error     |-> IF Truthy(p.error) THEN <<p.error[1]>>
                       ELSE IF missing THEN << <<"a">> >> ELSE <<>>]

InputRender(p, r) ==
    [className |-> <<"mb-4", p.className>>,
     label     |-> IF Truthy(p.label)
                   THEN <<[htmlFor |-> InputId(p, r), text |-> p.label[1],
                           required |-> p.required]>>
                   ELSE <<>>,
     field     |-> [id          |-> InputId(p, r),
                    type        |-> p.type,
                    value       |-> p.value,
                    placeholder |-> p.placeholder,
                    disabled    |-> p.disabled,
                    required    |-> p.required,
                    className   |-> <<"w-full px-3 py-2 border rounded-md shadow-sm focus:outline-none focus:ring-2 focus:ring-blue-500 focus:border-blue-500",
                                      IF Truthy(p.error) THEN "border-red-300" ELSE "border-gray-300",
                                      IF p.disabled THEN "bg-gray-100 cursor-not-allowed" ELSE "bg-white">>],
     error     |-> IF Truthy(p.error) THEN <<p.error[1]>> ELSE <<>>]

InputMount(p, r) == [props |-> p, tree |-> InputRender(p, r)]

InputOnChangeStale(p, text) == <<Call("onChange", <<p.value>>)>>

\* onChange={(e) => onChange(e.target.value)}
InputOnChange(p, text) == <<Call("onChange", <<text>>)>>

\* The caller's handler: setInputValue stores the text it is handed, () => {}
\* stores nothing.  The stored text is the value of the next render.
CallerOnChange(p, text) ==
    IF p.onChange = "setInputValue" THEN [p EXCEPT !.value = text] ELSE p

RECURSIVE InputHandleCalls(_, _)
InputHandleCalls(p, cs) ==
    IF cs = <<>> THEN p
    ELSE InputHandleCalls(CallerOnChange(p, Head(cs).arg[1]), Tail(cs))

InputChangeUncontrolled(text, r) ==
    /\ mounted = "Input"
    /\ ~input.tree.field.disabled
    /\ text /= input.tree.field.value
    /\ calls' = InputOnChange(input.props, text)
    /\ LET p == InputHandleCalls(input.props, calls')
       IN  input' = [props |-> p,
                     tree  |-> [InputRender(p, r) EXCEPT !.field.value = text]]
    /\ lastEvent' = Event("change", "field", text)
    /\ UNCHANGED <<appVars, mounted, button, card, modal, alert, tooltip>>

\* The user edits the field so that it reads text: the change handler runs,
\* the caller's handler runs, and the Input is rendered from the caller's value.
InputChange(text, r) ==
    /\ mounted = "Input"
    /\ ~input.tree.field.disabled
    /\ text /= input.tree.field.value
    /\ calls' = InputOnChange(input.props, text)
    /\ input' = InputMount(InputHandleCalls(input.props, calls'), r)
    /\ lastEvent' = Event("change", "field", text)
    /\ UNCHANGED <<appVars, mounted, button, card, modal, alert, tooltip>>

\* The caller renders the Input again with another value.
InputRerender(v, r) ==
    /\ mounted = "Input"
    /\ input' = InputMount([input.props EXCEPT !.value = v], r)
    /\ lastEvent' = Event("render", "input", <<>>)
    /\ calls' = <<>>
    /\ UNCHANGED <<appVars, mounted, button, card, modal, alert, tooltip>>

---------------------------------------------------------------------------
(* 3. Card *)

CardPaddings == {"small", "medium", "large"}

CardPaddingClasses == [small |-> "p-3", medium |-> "p-6", large |-> "p-8"]

CardProps ==
    [children : {"children"}, title : Opt(ShortTexts), subtitle : Opt(ShortTexts),
     className : {""}, onClick : Opt({"onClick"}), hoverable : BOOLEAN,
     padding : CardPaddings]

CardDefaults ==
    [children |-> "children", title |-> <<>>, subtitle |-> <<>>, className |-> "",
     onClick |-> <<>>, hoverable |-> FALSE, padding |-> "medium"]

CardHeader(p) ==
    [className |-> "mb-4",
     title     |-> IF Truthy(p.title) THEN <<p.title[1]>> ELSE <<>>,
     subtitle  |-> IF Truthy(p.subtitle) THEN <<p.subtitle[1]>> ELSE <<>>]

CardRenderTitleOnly(p) ==
    [className |-> <<"bg-white rounded-lg shadow-md border border-gray-200",
                     CardPaddingClasses[p.padding],
                     IF p.hoverable THEN "hover:shadow-lg transition-shadow duration-200" ELSE "",
                     IF Provided(p.onClick) THEN "cursor-pointer" ELSE "",
                     p.className>>,
     onClick   |-> p.onClick,
     header    |-> IF Truthy(p.title) THEN <<CardHeader(p)>> ELSE <<>>,
     children  |-> p.children]

CardRender(p) ==
    [className |-> <<"bg-white rounded-lg shadow-md border border-gray-200",
                     CardPaddingClasses[p.padding],
                     IF p.hoverable THEN "hover:shadow-lg transition-shadow duration-200" ELSE "",
                     IF Provided(p.onClick) THEN "cursor-pointer" ELSE "",
                     p.className>>,
     onClick   |-> p.onClick,
     header    |-> IF Truthy(p.title) \/ Truthy(p.subtitle) THEN <<CardHeader(p)>> ELSE <<>>,
     children  |-> p.children]

CardMount(p) == [props |-> p, tree |-> CardRender(p)]

\* The user clicks anywhere in the Card: the click reaches the outer div.
CardClick ==
    /\ mounted = "Card"
    /\ calls' = IF Provided(card.tree.onClick)
                THEN <<Call(card.tree.onClick[1], <<>>)>> ELSE <<>>
    /\ card' = CardMount(card.props)
    /\ lastEvent' = Event("click", "card", <<>>)
    /\ UNCHANGED <<appVars, mounted, button, input, modal, alert, tooltip>>

\* The caller renders the Card again with another title and subtitle.
CardRerender(title, subtitle) ==
    /\ mounted = "Card"
    /\ card' = CardMount([card.props EXCEPT !.title = title, !.subtitle = subtitle])
    /\ lastEvent' = Event("render", "card", <<>>)
    /\ calls' = <<>>
    /\ UNCHANGED <<appVars, mounted, button, input, modal, alert, tooltip>>

---------------------------------------------------------------------------
(* 4. Modal *)

ModalSizes == {"small", "medium", "large"}

ModalSizeClasses == [small |-> "max-w-md", medium |-> "max-w-lg", large |-> "max-w-2xl"]

ModalProps ==
    [isOpen : BOOLEAN, onClose : {"setIsModalOpenFalse", "noop"},
     title : Opt(ShortTexts), children : {"children"}, size : ModalSizes,
     showCloseButton : BOOLEAN]

ModalDefaults ==
    [isOpen |-> FALSE, onClose |-> "noop", title |-> <<>>, children |-> "children",
     size |-> "medium", showCloseButton |-> TRUE]

\* An element of the rendered Modal: its place in the tree, its click handler
\* (<<>> when it has none), its class name and its text.
Node(name, parent, onClick, className, text) ==
    [name |-> name, parent |-> parent, onClick |-> onClick,
     className |-> className, text |-> text]

ModalHeader(p) ==
    IF Truthy(p.title) \/ p.showCloseButton
    THEN {Node("header", "panel", <<>>,
               <<"flex items-center justify-between p-6 border-b border-gray-200">>, <<>>)}
         \cup (IF Truthy(p.title)
               THEN {Node("title", "header", <<>>,
                          <<"text-lg font-semibold text-gray-900">>, p.title)}
               ELSE {})
         \cup (IF p.showCloseButton
               THEN {Node("closeButton", "header", <<"onClose">>,
                          <<"text-gray-400 hover:text-gray-600 transition-colors">>, <<>>)}
               ELSE {})
    ELSE {}

ModalOpenTree(p) ==
    {Node("root", "", <<>>, <<"fixed inset-0 z-50 overflow-y-auto">>, <<>>),
     Node("backdrop", "root", <<"onClose">>,
          <<"fixed inset-0 bg-black bg-opacity-50 transition-opacity">>, <<>>),
     Node("wrapper", "root", <<>>, <<"flex min-h-full items-center justify-center p-4">>, <<>>),
     Node("panel", "wrapper", <<>>,
          <<"relative bg-white rounded-lg shadow-xl w-full", ModalSizeClasses[p.size]>>, <<>>),
     Node("content", "panel", <<>>, <<"p-6">>, <<>>)}
    \cup ModalHeader(p)

ModalRenderAlways(p) == ModalOpenTree(p)

ModalRenderPanelCloses(p) ==
    IF ~p.isOpen THEN {}
    ELSE {IF x.name = "panel" THEN [x EXCEPT !.onClick = <<"onClose">>] ELSE x :
            x \in ModalOpenTree(p)}

\* if (!isOpen) return null; the empty tree is the null output
ModalRender(p) == IF ~p.isOpen THEN {} ELSE ModalOpenTree(p)

ModalMount(p) == [props |-> p, tree |-> ModalRender(p)]

\* The host's dispatch of a click: the handlers of the target and of its
\* ancestors, innermost first.
RECURSIVE Bubble(_, _)
Bubble(tree, name) ==
    LET node == CHOOSE x \in tree : x.name = name
        own  == IF Provided(node.onClick) THEN <<Call(node.onClick[1], <<>>)>> ELSE <<>>
    IN  IF node.parent = "" THEN own ELSE own \o Bubble(tree, node.parent)

\* The caller's onClose: () => setIsModalOpen(false), or a handler that keeps
\* the modal open.
CallerOnClose(p) ==
    IF p.onClose = "setIsModalOpenFalse" THEN [p EXCEPT !.isOpen = FALSE] ELSE p

RECURSIVE ModalHandleCalls(_, _)
ModalHandleCalls(p, cs) ==
    IF cs = <<>> THEN p ELSE ModalHandleCalls(CallerOnClose(p), Tail(cs))

ModalClickSelfClosing(n) ==
    /\ mounted = "Modal"
    /\ n \in {x.name : x \in modal.tree}
    /\ calls' = Bubble(modal.tree, n)
    /\ LET p == ModalHandleCalls(modal.props, calls')
       IN  modal' = [props |-> p, tree |-> IF calls' = <<>> THEN ModalRender(p) ELSE {}]
    /\ lastEvent' = Event("click", n, <<>>)
    /\ UNCHANGED <<appVars, mounted, button, input, card, alert, tooltip>>

\* The user clicks element n of the open Modal.
ModalClick(n) ==
    /\ mounted = "Modal"
    /\ n \in {x.name : x \in modal.tree}
    /\ calls' = Bubble(modal.tree, n)
    /\ modal' = ModalMount(ModalHandleCalls(modal.props, calls'))
    /\ lastEvent' = Event("click", n, <<>>)
    /\ UNCHANGED <<appVars, mounted, button, input, card, alert, tooltip>>

\* The caller sets its open flag, as the demo's "Open Modal" button does.
ModalRerender(isOpen) ==
    /\ mounted = "Modal"
    /\ modal' = ModalMount([modal.props EXCEPT !.isOpen = isOpen])
    /\ lastEvent' = Event("render", "modal", <<>>)
    /\ calls' = <<>>
    /\ UNCHANGED <<appVars, mounted, button, input, card, alert, tooltip>>

---------------------------------------------------------------------------
(* 6. Alert *)

AlertTypes == {"info", "success", "warning", "error"}

AlertTypeClasses ==
    [info    |-> "bg-blue-50 border-blue-200 text-blue-800",
     success |-> "bg-green-50 border-green-200 text-green-800",
     warning |-> "bg-yellow-50 border-yellow-200 text-yellow-800",
     error   |-> "bg-red-50 border-red-200 text-red-800"]

AlertIconClasses ==
    [info    |-> "text-blue-400",
     success |-> "text-green-400",
     warning |-> "text-yellow-400",
     error   |-> "text-red-400"]

AlertProps ==
    [children : {"children"}, type : AlertTypes, title : Opt(ShortTexts),
     onClose : Opt({"setShowAlertFalse", "noop"}), className : {""}]

AlertDefaults ==
    [children |-> "children", type |-> "info", title |-> <<>>, onClose |-> <<>>,
     className |-> ""]

AlertCloseControl ==
    [onClick |-> <<"onClose">>, className |-> "inline-flex text-gray-400 hover:text-gray-600"]

AlertRenderAlwaysClosable(p) ==
    [className |-> <<"border rounded-md p-4", AlertTypeClasses[p.type], p.className>>,
     icon      |-> <<"h-5 w-5", AlertIconClasses[p.type]>>,
     title     |-> IF Truthy(p.title) THEN <<p.title[1]>> ELSE <<>>,
     children  |-> p.children,
     close     |-> <<AlertCloseControl>>]

AlertRender(p) ==
    [className |-> <<"border rounded-md p-4", AlertTypeClasses[p.type], p.className>>,
     icon      |-> <<"h-5 w-5", AlertIconClasses[p.type]>>,
     title     |-> IF Truthy(p.title) THEN <<p.title[1]>> ELSE <<>>,
     children  |-> p.children,
     close     |-> IF Provided(p.onClose) THEN <<AlertCloseControl>> ELSE <<>>]

\* {showAlert && <Alert ... />}: the caller renders the Alert or does not
AlertMount(shown, p) ==
    [shown |-> shown, props |-> p, tree |-> IF shown THEN <<AlertRender(p)>> ELSE <<>>]

\* The caller's onClose: () => setShowAlert(false), or a handler that keeps
\* rendering the Alert.
CallerOnAlertClose(shown, p) ==
    IF p.onClose = <<"setShowAlertFalse">> THEN FALSE ELSE shown

AlertClickCloseSelfRemoving ==
    /\ mounted = "Alert"
    /\ alert.tree /= <<>>
    /\ alert.tree[1].close /= <<>>
    /\ calls' = <<Call(alert.tree[1].close[1].onClick[1], <<>>)>>
    /\ alert' = [AlertMount(CallerOnAlertClose(alert.shown, alert.props), alert.props)
                   EXCEPT !.tree = <<>>]
    /\ lastEvent' = Event("click", "close", <<>>)
    /\ UNCHANGED <<appVars, mounted, button, input, card, modal, tooltip>>

\* The user clicks the Alert's close control.
AlertClickClose ==
    /\ mounted = "Alert"
    /\ alert.tree /= <<>>
    /\ alert.tree[1].close /= <<>>
    /\ calls' = <<Call(alert.tree[1].close[1].onClick[1], <<>>)>>
    /\ alert' = AlertMount(CallerOnAlertClose(alert.shown, alert.props), alert.props)
    /\ lastEvent' = Event("click", "close", <<>>)
    /\ UNCHANGED <<appVars, mounted, button, input, card, modal, tooltip>>

\* The user clicks the Alert anywhere else: no element there has a handler.
AlertClickBody ==
    /\ mounted = "Alert"
    /\ alert.tree /= <<>>
    /\ calls' = <<>>
    /\ alert' = AlertMount(alert.shown, alert.props)
    /\ lastEvent' = Event("click", "alert", <<>>)
    /\ UNCHANGED <<appVars, mounted, button, input, card, modal, tooltip>>

\* The caller starts or stops rendering the Alert.
AlertRerender(shown) ==
    /\ mounted = "Alert"
    /\ alert' = AlertMount(shown, alert.props)
    /\ lastEvent' = Event("render", "alert", <<>>)
    /\ calls' = <<>>
    /\ UNCHANGED <<appVars, mounted, button, input, card, modal, tooltip>>

---------------------------------------------------------------------------
(* 8. Tooltip *)

TooltipPositions == {"top", "bottom", "left", "right"}

TooltipPositionClasses ==
    [top    |-> "bottom-full left-1/2 transform -translate-x-1/2 mb-2",
     bottom |-> "top-full left-1/2 transform -translate-x-1/2 mt-2",
     left   |-> "right-full top-1/2 transform -translate-y-1/2 mr-2",
     right  |-> "left-full top-1/2 transform -translate-y-1/2 ml-2"]

TooltipArrowClasses ==
    [top    |-> "top-full left-1/2 transform -translate-x-1/2 border-t-gray-900",
     bottom |-> "bottom-full left-1/2 transform -translate-x-1/2 border-b-gray-900",
     left   |-> "left-full top-1/2 transform -translate-y-1/2 border-l-gray-900",
     right  |-> "right-full top-1/2 transform -translate-y-1/2 border-r-gray-900"]

\* The four Tooltips of the demo, named by their position.
TooltipIds == TooltipPositions

TooltipDemoProps ==
    [top    |-> [children |-> "Hover for Top Tooltip", content |-> "This is a top tooltip",
                 position |-> "top", className |-> ""],
     bottom |-> [children |-> "Hover for Bottom Tooltip", content |-> "This is a bottom tooltip",
                 position |-> "bottom", className |-> ""],
     left   |-> [children |-> "Hover for Left Tooltip", content |-> "This is a left tooltip",
                 position |-> "left", className |-> ""],
     right  |-> [children |-> "Hover for Right Tooltip", content |-> "This is a right tooltip",
                 position |-> "right", className |-> ""]]

TooltipRender(p, isVisible) ==
    [className |-> <<"relative inline-block", p.className>>,
     children  |-> p.children,
     bubble    |-> IF isVisible
                   THEN <<[className |-> <<"absolute z-10", TooltipPositionClasses[p.position]>>,
                           content   |-> p.content,
                           arrow     |-> <<"absolute w-0 h-0 border-4 border-transparent",
                                           TooltipArrowClasses[p.position]>>]>>
                   ELSE <<>>]

\* One Tooltip instance: its props, its state slot, what it rendered last, and
\* the pointer event it handled last ("none" before the first).
TooltipInstance(p, isVisible, last) ==
    [props |-> p, isVisible |-> isVisible, tree |-> TooltipRender(p, isVisible),
     last |-> last]

\* useState(false)
TooltipMount(p) == TooltipInstance(p, FALSE, "none")

TooltipMouseEnterShared(i) ==
    /\ mounted = "Tooltip"
    /\ tooltip' = [j \in TooltipIds |->
                     TooltipInstance(tooltip[j].props, TRUE,
                                     IF j = i THEN "enter" ELSE tooltip[j].last)]
    /\ lastEvent' = Event("mouseenter", i, <<>>)
    /\ calls' = <<>>
    /\ UNCHANGED <<appVars, mounted, button, input, card, modal, alert>>

\* onMouseEnter={() => setIsVisible(true)}
TooltipMouseEnter(i) ==
    /\ mounted = "Tooltip"
    /\ tooltip' = [tooltip EXCEPT ![i] = TooltipInstance(tooltip[i].props, TRUE, "enter")]
    /\ lastEvent' = Event("mouseenter", i, <<>>)
    /\ calls' = <<>>
    /\ UNCHANGED <<appVars, mounted, button, input, card, modal, alert>>

TooltipMouseLeaveToggling(i) ==
    /\ mounted = "Tooltip"
    /\ tooltip' = [tooltip EXCEPT ![i] =
                     TooltipInstance(tooltip[i].props, ~tooltip[i].isVisible, "leave")]
    /\ lastEvent' = Event("mouseleave", i, <<>>)
    /\ calls' = <<>>
    /\ UNCHANGED <<appVars, mounted, button, input, card, modal, alert>>

\* onMouseLeave={() => setIsVisible(false)}
TooltipMouseLeave(i) ==
    /\ mounted = "Tooltip"
    /\ tooltip' = [tooltip EXCEPT ![i] = TooltipInstance(tooltip[i].props, FALSE, "leave")]
    /\ lastEvent' = Event("mouseleave", i, <<>>)
    /\ calls' = <<>>
    /\ UNCHANGED <<appVars, mounted, button, input, card, modal, alert>>

---------------------------------------------------------------------------
(* 5. Badge and 7. Spinner *)

BadgeVariants == {"default", "success", "warning", "danger", "info"}
BadgeSizes == {"small", "medium", "large"}

BadgeVariantClasses ==
    [default |-> "bg-gray-100 text-gray-800",
     success |-> "bg-green-100 text-green-800",
     warning |-> "bg-yellow-100 text-yellow-800",
     danger  |-> "bg-red-100 text-red-800",
     info    |-> "bg-blue-100 text-blue-800"]

BadgeSizeClasses ==
    [small  |-> "px-2 py-0.5 text-xs",
     medium |-> "px-2.5 py-0.5 text-sm",
     large  |-> "px-3 py-1 text-base"]

BadgeDefaults ==
    [children |-> "children", variant |-> "default", size |-> "medium", className |-> ""]

BadgeRender(p) ==
    [className |-> <<"inline-flex items-center font-medium rounded-full",
                     BadgeVariantClasses[p.variant], BadgeSizeClasses[p.size], p.className>>,
     children  |-> p.children]

BadgeMount(p) == [props |-> p, tree |-> BadgeRender(p)]

\* The caller renders the Badge with a variant and a size.
BadgeRerender(variant, size) ==
    /\ mounted = "Badge"
    /\ badge' = BadgeMount([badge.props EXCEPT !.variant = variant, !.size = size])
    /\ lastEvent' = Event("render", "badge", <<>>)
    /\ calls' = <<>>
    /\ UNCHANGED <<mounted, button, input, card, modal, alert, tooltip, spinner,
                   demo, tut, api>>

SpinnerSizes == {"small", "medium", "large"}
SpinnerColors == {"primary", "white", "gray"}

SpinnerSizeClasses == [small |-> "h-4 w-4", medium |-> "h-6 w-6", large |-> "h-8 w-8"]

SpinnerColorClasses ==
    [primary |-> "text-blue-600", white |-> "text-white", gray |-> "text-gray-600"]

SpinnerDefaults == [size |-> "medium", color |-> "primary", className |-> ""]

SpinnerRender(p) ==
    [className |-> <<"animate-spin rounded-full border-2 border-gray-300 border-t-current",
                     SpinnerSizeClasses[p.size], SpinnerColorClasses[p.color], p.className>>]

SpinnerMount(p) == [props |-> p, tree |-> SpinnerRender(p)]

\* The caller renders the Spinner with a size and a color.
SpinnerRerender(size, color) ==
    /\ mounted = "Spinner"
    /\ spinner' = SpinnerMount([spinner.props EXCEPT !.size = size, !.color = color])
    /\ lastEvent' = Event("render", "spinner", <<>>)
    /\ calls' = <<>>
    /\ UNCHANGED <<mounted, button, input, card, modal, alert, tooltip, badge,
                   demo, tut, api>>

---------------------------------------------------------------------------
(* The demo composition, ReusableUIComponentsExample *)

\* useState(''), useState(false), useState(true); lastModalClick remembers the
\* last click on the Open Modal button or on a closing control of the Modal.
DemoInitial ==
    [inputValue |-> <<>>, isModalOpen |-> FALSE, showAlert |-> TRUE,
     lastModalClick |-> "none"]

DemoEmailProps(d) ==
    [label |-> << <<"Email Address">> >>, placeholder |-> "Enter your email",
     value |-> d.inputValue, onChange |-> "setInputValue", type |-> "email",
     error |-> <<>>, disabled |-> FALSE, required |-> TRUE, className |-> "",
     id |-> <<>>]

DemoPasswordProps ==
    [label |-> << <<"Password">> >>, placeholder |-> "Enter your password",
     value |-> <<>>, onChange |-> "noop", type |-> "password",
     error |-> << <<"Password is required">> >>, disabled |-> FALSE,
     required |-> FALSE, className |-> "", id |-> <<>>]

DemoAlertProps ==
    [children |-> "This is an informational alert that can be dismissed.",
     type |-> "info", title |-> << <<"Information">> >>,
     onClose |-> <<"setShowAlertFalse">>, className |-> ""]

DemoModalProps(d) ==
    [isOpen |-> d.isModalOpen, onClose |-> "setIsModalOpenFalse",
     title |-> << <<"Example Modal">> >>, children |-> "children",
     size |-> "medium", showCloseButton |-> TRUE]

DemoOpenButtonProps ==
    [ButtonDefaults EXCEPT !.children = "Open Modal", !.onClick = <<"openModal">>]

\* the two Buttons the demo passes to the Modal as children
DemoModalButtonProps ==
    [cancel  |-> [ButtonDefaults EXCEPT !.children = "Cancel", !.variant = "secondary",
                                        !.onClick = <<"cancel">>],
     confirm |-> [ButtonDefaults EXCEPT !.children = "Confirm", !.onClick = <<"confirm">>]]

\* onChange={setInputValue}
DemoSetInputValue(d, v) == [d EXCEPT !.inputValue = v]

DemoOpenModalResetsAlert(d) == [d EXCEPT !.isModalOpen = TRUE, !.showAlert = TRUE]

\* onClick={() => setIsModalOpen(true)}
DemoOpenModal(d) == [d EXCEPT !.isModalOpen = TRUE]

\* onClose={() => setIsModalOpen(false)}
DemoCloseModal(d) == [d EXCEPT !.isModalOpen = FALSE]

\* Cancel: onClick={() => setIsModalOpen(false)}
DemoCancel(d) == [d EXCEPT !.isModalOpen = FALSE]

DemoConfirmKeepsOpen(d) == d

\* Confirm: onClick={() => setIsModalOpen(false)}
DemoConfirm(d) == [d EXCEPT !.isModalOpen = FALSE]

\* onClose={() => setShowAlert(false)}
DemoCloseAlert(d) == [d EXCEPT !.showAlert = FALSE]

HasContent(tree) == \E x \in tree : x.name = "content"

DemoSlots(d) == <<d.inputValue, d.isModalOpen, d.showAlert>>

\* The demo after its handlers ran: when a state slot changed, the whole
\* composition is rendered again (each Input drawing a new identifier); when
\* none did, React bails out and the output stays.
DemoCommit(d, r) ==
    /\ demo' = d
    /\ IF DemoSlots(d) = DemoSlots(demo)
       THEN UNCHANGED <<input, modal, alert>>
       ELSE /\ input' = InputMount(DemoEmailProps(d), r)
            /\ modal' = ModalMount(DemoModalProps(d))
            /\ alert' = AlertMount(d.showAlert, DemoAlertProps)
    /\ UNCHANGED <<mounted, button, card, badge, spinner, tut, api>>

\* The user clicks "Open Modal".
DemoClickOpenModal(r) ==
    /\ mounted = "Demo"
    /\ calls' = NativeClick(button.tree)
    /\ lastEvent' = Event("click", "openModal", <<>>)
    /\ DemoCommit(IF calls' = <<>> THEN demo
                  ELSE [DemoOpenModal(demo) EXCEPT !.lastModalClick = "open"], r)
    /\ UNCHANGED tooltip

\* The user clicks element n of the open Modal.
DemoClickModal(n, r) ==
    /\ mounted = "Demo"
    /\ n \in {x.name : x \in modal.tree}
    /\ calls' = Bubble(modal.tree, n)
    /\ lastEvent' = Event("click", n, <<>>)
    /\ DemoCommit(IF calls' = <<>> THEN demo
                  ELSE [DemoCloseModal(demo) EXCEPT !.lastModalClick = n], r)
    /\ UNCHANGED tooltip

\* The user clicks Cancel or Confirm inside the open Modal: the Button's
\* handler runs, then the click bubbles from the content block upwards.
DemoClickModalButton(b, r) ==
    /\ mounted = "Demo"
    /\ HasContent(modal.tree)
    /\ calls' = NativeClick(ButtonRender(DemoModalButtonProps[b]))
                   \o Bubble(modal.tree, "content")
    /\ lastEvent' = Event("click", b, <<>>)
    /\ DemoCommit([(IF b = "cancel" THEN DemoCancel(demo) ELSE DemoConfirm(demo))
                      EXCEPT !.lastModalClick = b], r)
    /\ UNCHANGED tooltip

\* The user clicks the close control of the info Alert.
DemoClickAlertClose(r) ==
    /\ mounted = "Demo"
    /\ alert.tree /= <<>>
    /\ alert.tree[1].close /= <<>>
    /\ calls' = <<Call(alert.tree[1].close[1].onClick[1], <<>>)>>
    /\ lastEvent' = Event("click", "close", <<>>)
    /\ DemoCommit(DemoCloseAlert(demo), r)
    /\ UNCHANGED tooltip

\* The user edits the email field so that it reads text.
DemoInputChange(text, r) ==
    /\ mounted = "Demo"
    /\ text /= input.tree.field.value
    /\ calls' = InputOnChange(input.props, text)
    /\ lastEvent' = Event("change", "email", text)
    /\ DemoCommit(DemoSetInputValue(demo, text), r)
    /\ UNCHANGED tooltip

\* The user types into the password field: onChange={() => {}} stores nothing.
DemoPasswordChange(text) ==
    /\ mounted = "Demo"
    /\ text /= DemoPasswordProps.value
    /\ calls' = InputOnChange(DemoPasswordProps, text)
    /\ lastEvent' = Event("change", "password", text)
    /\ UNCHANGED <<mounted, button, input, card, modal, alert, tooltip, badge, spinner,
                   demo, tut, api>>

\* The pointer enters or leaves one of the four Tooltips.
DemoTooltipPointer(i, enter) ==
    /\ mounted = "Demo"
    /\ tooltip' = [tooltip EXCEPT ![i] =
                     TooltipInstance(tooltip[i].props, enter,
                                     IF enter THEN "enter" ELSE "leave")]
    /\ lastEvent' = Event(IF enter THEN "mouseenter" ELSE "mouseleave", i, <<>>)
    /\ calls' = <<>>
    /\ UNCHANGED <<mounted, button, input, card, modal, alert, badge, spinner,
                   demo, tut, api>>

---------------------------------------------------------------------------
(* The props/state tutorial, in its two files: the definitions ending in _A
   are those of 1.FunctionalComponents/PropsAndStateTyping.tsx, the ones
   ending in _B those of the other copy of the file. *)

MaxCount == 2
MaxTodos == 2

\* the instants Date.now() can return
Instants == {1, 2}

WhiteSpace == {" ", "\t"}

\* the texts typed into the todo field
TodoTexts == {<<>>, <<" ">>, <<"\t">>, <<"a">>, <<" ", "a">>, <<"a", " ">>}

\* String.prototype.trim
RECURSIVE TrimStart(_)
TrimStart(t) ==
    IF t /= <<>> /\ Head(t) \in WhiteSpace THEN TrimStart(Tail(t)) ELSE t

RECURSIVE TrimEnd(_)
TrimEnd(t) ==
    IF t /= <<>> /\ t[Len(t)] \in WhiteSpace THEN TrimEnd(SubSeq(t, 1, Len(t) - 1)) ELSE t

Trim(t) == TrimEnd(TrimStart(t))

\* ---- the components of 1.FunctionalComponents/PropsAndStateTyping.tsx ----

Greeting_A(p) ==
    [h2 |-> <<"Hello, ", p.name, "!">>,
     p  |-> IF ~Provided(p.age) THEN <<>>
            ELSE IF p.age[1] = 0 THEN <<[tag |-> "text", age |-> 0]>>
            ELSE <<[tag |-> "p", age |-> p.age[1]]>>]

\* useState(0), useState(''), useState(false)
CounterInitial_A == [count |-> 0, name |-> <<>>, isActive |-> FALSE]

\* onClick={() => setCount(count + 1)}
CounterAddOne_A(c) == [c EXCEPT !.count = c.count + 1]

\* onChange={(e) => setName(e.target.value)}
CounterSetName_A(c, v) == [c EXCEPT !.name = v]

\* onClick={() => setIsActive(!isActive)}
CounterToggle_A(c) == [c EXCEPT !.isActive = ~c.isActive]

Counter_A(c) ==
    [p |-> <<"Count: ", c.count>>, input |-> c.name,
     toggle |-> IF c.isActive THEN "Turn Off" ELSE "Turn On"]

UserProfileInitial_A == [name |-> "John", email |-> "john@example.com", age |-> 25]

\* setUser({ ...user, name: newName })
updateName_A(user, newName) == [user EXCEPT !.name = newName]

UserProfile_A(user) ==
    [name |-> <<"Name: ", user.name>>, email |-> <<"Email: ", user.email>>,
     age |-> <<"Age: ", user.age>>]

\* useState<TodoItem[]>([]), useState('')
TodoListInitial_A == [todos |-> <<>>, newTodo |-> <<>>]

\* onChange={(e) => setNewTodo(e.target.value)}
setNewTodo_A(t, v) == [t EXCEPT !.newTodo = v]

addTodoTrimmed_A(t, now) ==
    IF Trim(t.newTodo) /= <<>>
    THEN [todos   |-> t.todos \o <<[id |-> now, text |-> Trim(t.newTodo), completed |-> FALSE]>>,
          newTodo |-> <<>>]
    ELSE t

\* addTodo, with now the value Date.now() returns
addTodo_A(t, now) ==
    IF Trim(t.newTodo) /= <<>>
    THEN [todos   |-> t.todos \o <<[id |-> now, text |-> t.newTodo, completed |-> FALSE]>>,
          newTodo |-> <<>>]
    ELSE t

TodoList_A(t) ==
    [input |-> t.newTodo,
     ul    |-> [i \in 1..Len(t.todos) |->
                  [key |-> t.todos[i].id,
                   li  |-> <<t.todos[i].text, " - ",
                             IF t.todos[i].completed THEN "Done" ELSE "Not done">>]]]

\* Button of the tutorial: <button onClick={onClick} disabled={disabled}>
TutorialButton_A(p) == [text |-> p.text, onClick |-> <<p.onClick>>, disabled |-> p.disabled]

\* handleClick: alert('Button clicked!')
handleClick_A == <<"Button clicked!">>

TutorialButtons_A ==
    [clickMe  |-> [text |-> "Click Me!", onClick |-> "handleClick", disabled |-> FALSE],
     disabled |-> [text |-> "Disabled Button", onClick |-> "handleClick", disabled |-> TRUE]]

TutorialInitial_A ==
    [counter |-> CounterInitial_A, user |-> UserProfileInitial_A,
     todoList |-> TodoListInitial_A, alerts |-> <<>>]

SimplePropsStateDemo_A(s) ==
    [greetings |-> <<Greeting_A([name |-> "Alice", age |-> <<25>>]),
                     Greeting_A([name |-> "Bob", age |-> <<>>])>>,
     counter   |-> Counter_A(s.counter),
     profile   |-> UserProfile_A(s.user),
     todoList  |-> TodoList_A(s.todoList),
     buttons   |-> [b \in DOMAIN TutorialButtons_A |-> TutorialButton_A(TutorialButtons_A[b])]]

\* One event of the page handled by the components of this file.
TutorialHandle_A(s, e) ==
    LET q == [s EXCEPT !.alerts = <<>>] IN
    CASE e.type = "addOne"     -> [q EXCEPT !.counter = CounterAddOne_A(s.counter)]
      [] e.type = "name"       -> [q EXCEPT !.counter = CounterSetName_A(s.counter, e.text)]
      [] e.type = "toggle"     -> [q EXCEPT !.counter = CounterToggle_A(s.counter)]
      [] e.type = "changeName" -> [q EXCEPT !.user = updateName_A(s.user, "Jane")]
      [] e.type = "newTodo"    -> [q EXCEPT !.todoList = setNewTodo_A(s.todoList, e.text)]
      [] e.type = "add"        -> [q EXCEPT !.todoList = addTodo_A(s.todoList, e.now)]
      [] e.type = "button"     ->
            [q EXCEPT !.alerts =
                 IF NativeClick(TutorialButton_A(TutorialButtons_A[e.target])) = <<>>
                 THEN <<>> ELSE handleClick_A]

\* ---- the components of the other copy ----

Greeting_B(p) ==
    [h2 |-> <<"Hello, ", p.name, "!">>,
     p  |-> IF ~Provided(p.age) THEN <<>>
            ELSE IF p.age[1] = 0 THEN <<[tag |-> "text", age |-> 0]>>
            ELSE <<[tag |-> "p", age |-> p.age[1]]>>]

\* useState(0), useState(''), useState(false)
CounterInitial_B == [count |-> 0, name |-> <<>>, isActive |-> FALSE]

\* onClick={() => setCount(count + 1)}
CounterAddOne_B(c) == [c EXCEPT !.count = c.count + 1]

\* onChange={(e) => setName(e.target.value)}
CounterSetName_B(c, v) == [c EXCEPT !.name = v]

CounterToggleSticky_B(c) == [c EXCEPT !.isActive = TRUE]

\* onClick={() => setIsActive(!isActive)}
CounterToggle_B(c) == [c EXCEPT !.isActive = ~c.isActive]

Counter_B(c) ==
    [p |-> <<"Count: ", c.count>>, input |-> c.name,
     toggle |-> IF c.isActive THEN "Turn Off" ELSE "Turn On"]

UserProfileInitial_B == [name |-> "John", email |-> "john@example.com", age |-> 25]

\* setUser({ ...user, name: newName })
updateName_B(user, newName) == [user EXCEPT !.name = newName]

UserProfile_B(user) ==
    [name |-> <<"Name: ", user.name>>, email |-> <<"Email: ", user.email>>,
     age |-> <<"Age: ", user.age>>]

\* useState<TodoItem[]>([]), useState('')
TodoListInitial_B == [todos |-> <<>>, newTodo |-> <<>>]

\* onChange={(e) => setNewTodo(e.target.value)}
setNewTodo_B(t, v) == [t EXCEPT !.newTodo = v]

\* addTodo, with now the value Date.now() returns
addTodo_B(t, now) ==
    IF Trim(t.newTodo) /= <<>>
    THEN [todos   |-> t.todos \o <<[id |-> now, text |-> t.newTodo, completed |-> FALSE]>>,
          newTodo |-> <<>>]
    ELSE t

TodoList_B(t) ==
    [input |-> t.newTodo,
     ul    |-> [i \in 1..Len(t.todos) |->
                  [key |-> t.todos[i].id,
                   li  |-> <<t.todos[i].text, " - ",
                             IF t.todos[i].completed THEN "Done" ELSE "Not done">>]]]

\* Button of the tutorial: <button onClick={onClick} disabled={disabled}>
TutorialButton_B(p) == [text |-> p.text, onClick |-> <<p.onClick>>, disabled |-> p.disabled]

\* handleClick: alert('Button clicked!')
handleClick_B == <<"Button clicked!">>

TutorialButtons_B ==
    [clickMe  |-> [text |-> "Click Me!", onClick |-> "handleClick", disabled |-> FALSE],
     disabled |-> [text |-> "Disabled Button", onClick |-> "handleClick", disabled |-> TRUE]]

TutorialInitial_B ==
    [counter |-> CounterInitial_B, user |-> UserProfileInitial_B,
     todoList |-> TodoListInitial_B, alerts |-> <<>>]

SimplePropsStateDemo_B(s) ==
    [greetings |-> <<Greeting_B([name |-> "Alice", age |-> <<25>>]),
                     Greeting_B([name |-> "Bob", age |-> <<>>])>>,
     counter   |-> Counter_B(s.counter),
     profile   |-> UserProfile_B(s.user),
     todoList  |-> TodoList_B(s.todoList),
     buttons   |-> [b \in DOMAIN TutorialButtons_B |-> TutorialButton_B(TutorialButtons_B[b])]]

\* One event of the page handled by the components of this file.
TutorialHandle_B(s, e) ==
    LET q == [s EXCEPT !.alerts = <<>>] IN
    CASE e.type = "addOne"     -> [q EXCEPT !.counter = CounterAddOne_B(s.counter)]
      [] e.type = "name"       -> [q EXCEPT !.counter = CounterSetName_B(s.counter, e.text)]
      [] e.type = "toggle"     -> [q EXCEPT !.counter = CounterToggle_B(s.counter)]
      [] e.type = "changeName" -> [q EXCEPT !.user = updateName_B(s.user, "Jane")]
      [] e.type = "newTodo"    -> [q EXCEPT !.todoList = setNewTodo_B(s.todoList, e.text)]
      [] e.type = "add"        -> [q EXCEPT !.todoList = addTodo_B(s.todoList, e.now)]
      [] e.type = "button"     ->
            [q EXCEPT !.alerts =
                 IF NativeClick(TutorialButton_B(TutorialButtons_B[e.target])) = <<>>
                 THEN <<>> ELSE handleClick_B]

\* Both files' pages and the clock they share.
TutorialInitial == [A |-> TutorialInitial_A, B |-> TutorialInitial_B, now |-> 1]

\* The same event e reaches both pages.
TutorialEvent(e) ==
    /\ mounted = "Tutorial"
    /\ tut' = [A   |-> TutorialHandle_A(tut.A, e),
               B   |-> TutorialHandle_B(tut.B, e),
               now |-> e.now]
    /\ lastEvent' = Event(e.type, e.target, e.text)
    /\ calls' = <<>>
    /\ UNCHANGED <<mounted, button, input, card, modal, alert, tooltip, badge, spinner,
                   demo, api>>

TutorialInput(type, target, text, now) ==
    [type |-> type, target |-> target, text |-> text, now |-> now]

\* The user clicks "Add 1".
TutClickAddOne ==
    /\ tut.A.counter.count < MaxCount
    /\ TutorialEvent(TutorialInput("addOne", "", <<>>, tut.now))

\* The user edits the Counter's name field.
TutNameChange(v) ==
    /\ v /= tut.A.counter.name
    /\ TutorialEvent(TutorialInput("name", "", v, tut.now))

\* The user clicks the Turn On / Turn Off button.
TutClickToggle ==
    /\ mounted = "Tutorial"
    /\ TutorialEvent(TutorialInput("toggle", "", <<>>, tut.now))

\* The user clicks "Change Name to Jane".
TutClickChangeName ==
    /\ mounted = "Tutorial"
    /\ TutorialEvent(TutorialInput("changeName", "", <<>>, tut.now))

\* The user edits the todo field.
TutNewTodoChange(v) ==
    /\ v /= tut.A.todoList.newTodo
    /\ TutorialEvent(TutorialInput("newTodo", "", v, tut.now))

\* The user clicks Add at instant now.
TutClickAdd(now) ==
    /\ now >= tut.now
    /\ Len(tut.A.todoList.todos) < MaxTodos \/ Trim(tut.A.todoList.newTodo) = <<>>
    /\ TutorialEvent(TutorialInput("add", "", <<>>, now))

\* The user clicks one of the two Buttons of the page.
TutClickButton(b) ==
    /\ mounted = "Tutorial"
    /\ TutorialEvent(TutorialInput("button", b, <<>>, tut.now))

---------------------------------------------------------------------------
(* UserList and its fetchUsers *)

MaxCalls == 3

\* the calls of fetchUsers
CallIds == 1..MaxCalls

\* the bodies /api/users can answer with
FetchedUsers == {<<>>, <<"u1">>, <<"u1", "u2">>}

\* useState<ApiResponse>({ data: [], loading: false, error: null }); no call
\* of fetchUsers has started.  last is the latest step any call has taken.
UserListInitial ==
    [state |-> [data |-> <<>>, loading |-> FALSE, error |-> <<>>],
     pc    |-> [c \in CallIds |-> "idle"],
     last  |-> [call |-> 0, step |-> "none", users |-> <<>>]]

InFlight == {c \in CallIds : api.pc[c] \in {"fetching", "parsing"}}

\* fetchUsers is called: setApiState(prev => ({ ...prev, loading: true })),
\* then the request is sent and the call waits at the first await.
FetchUsersCall(c) ==
    /\ mounted = "UserList"
    /\ api.pc[c] = "idle"
    /\ api' = [state |-> [api.state EXCEPT !.loading = TRUE],
               pc    |-> [api.pc EXCEPT ![c] = "fetching"],
               last  |-> [call |-> c, step |-> "called", users |-> <<>>]]
    /\ lastEvent' = Event("fetchUsers", "", <<>>)
    /\ calls' = <<>>
    /\ UNCHANGED <<mounted, button, input, card, modal, alert, tooltip, badge, spinner,
                   demo, tut>>

\* The response of call c arrives: the call goes on to await response.json().
FetchResolves(c) ==
    /\ mounted = "UserList"
    /\ api.pc[c] = "fetching"
    /\ api' = [api EXCEPT !.pc[c] = "parsing", !.last = [call |-> c, step |-> "response", users |-> <<>>]]
    /\ lastEvent' = Event("response", "", <<>>)
    /\ calls' = <<>>
    /\ UNCHANGED <<mounted, button, input, card, modal, alert, tooltip, badge, spinner,
                   demo, tut>>

\* The body of call c is parsed:
\* setApiState({ data: users, loading: false, error: null }).
JsonResolves(c, users) ==
    /\ mounted = "UserList"
    /\ api.pc[c] = "parsing"
    /\ api' = [state |-> [data |-> users, loading |-> FALSE, error |-> <<>>],
               pc    |-> [api.pc EXCEPT ![c] = "done"],
               last  |-> [call |-> c, step |-> "succeeded", users |-> users]]
    /\ lastEvent' = Event("json", "", users)
    /\ calls' = <<>>
    /\ UNCHANGED <<mounted, button, input, card, modal, alert, tooltip, badge, spinner,
                   demo, tut>>

\* The request or the parsing of call c fails: the catch block runs
\* setApiState({ data: [], loading: false, error: 'Failed to fetch' }).
FetchFails(c) ==
    /\ mounted = "UserList"
    /\ api.pc[c] \in {"fetching", "parsing"}
    /\ api' = [state |-> [data |-> <<>>, loading |-> FALSE, error |-> <<"Failed to fetch">>],
               pc    |-> [api.pc EXCEPT ![c] = "done"],
               last  |-> [call |-> c, step |-> "failed", users |-> <<>>]]
    /\ lastEvent' = Event("catch", "", <<>>)
    /\ calls' = <<>>
    /\ UNCHANGED <<mounted, button, input, card, modal, alert, tooltip, badge, spinner,
                   demo, tut>>

---------------------------------------------------------------------------
(* The harness: one component mounted, with any props *)

Components == {"Button", "Input", "Card", "Modal", "Badge", "Alert", "Spinner", "Tooltip"}

Init ==
    /\ mounted \in Components
    /\ button \in IF mounted = "Button" THEN {ButtonMount(p) : p \in ButtonProps}
                  ELSE {ButtonMount(ButtonDefaults)}
    /\ input \in IF mounted = "Input"
                 THEN {InputMount(p, r) : p \in InputProps, r \in RandomSuffixes}
                 ELSE {InputMount(InputDefaults, <<>>)}
    /\ card \in IF mounted = "Card" THEN {CardMount(p) : p \in CardProps}
                ELSE {CardMount(CardDefaults)}
    /\ modal \in IF mounted = "Modal" THEN {ModalMount(p) : p \in ModalProps}
                 ELSE {ModalMount(ModalDefaults)}
    /\ alert \in IF mounted = "Alert"
                 THEN {AlertMount(shown, p) : shown \in BOOLEAN, p \in AlertProps}
                 ELSE {AlertMount(FALSE, AlertDefaults)}
    /\ tooltip = [i \in TooltipIds |-> TooltipMount(TooltipDemoProps[i])]
    /\ badge \in IF mounted = "Badge"
                 THEN {BadgeMount([BadgeDefaults EXCEPT !.variant = v, !.size = z]) :
                         v \in BadgeVariants, z \in BadgeSizes}
                 ELSE {BadgeMount(BadgeDefaults)}
    /\ spinner \in IF mounted = "Spinner"
                   THEN {SpinnerMount([SpinnerDefaults EXCEPT !.size = z, !.color = c]) :
                           z \in SpinnerSizes, c \in SpinnerColors}
                   ELSE {SpinnerMount(SpinnerDefaults)}
    /\ demo = DemoInitial
    /\ tut = TutorialInitial
    /\ api = UserListInitial
    /\ lastEvent = Event("mount", "", <<>>)
    /\ calls = <<>>

Next ==
    \/ ButtonClick
    \/ \E disabled \in BOOLEAN, loading \in BOOLEAN : ButtonRerender(disabled, loading)
    \/ \E text \in Texts, r \in RandomSuffixes : InputChange(text, r)
    \/ \E v \in Texts, r \in RandomSuffixes : InputRerender(v, r)
    \/ CardClick
    \/ \E title \in Opt(ShortTexts), subtitle \in Opt(ShortTexts) : CardRerender(title, subtitle)
    \/ \E n \in {"root", "backdrop", "wrapper", "panel", "header", "title",
                 "closeButton", "content"} : ModalClick(n)
    \/ \E isOpen \in BOOLEAN : ModalRerender(isOpen)
    \/ AlertClickClose
    \/ AlertClickBody
    \/ \E shown \in BOOLEAN : AlertRerender(shown)
    \/ \E i \in TooltipIds : TooltipMouseEnter(i)
    \/ \E i \in TooltipIds : TooltipMouseLeave(i)
    \/ \E variant \in BadgeVariants, size \in BadgeSizes : BadgeRerender(variant, size)
    \/ \E size \in SpinnerSizes, color \in SpinnerColors : SpinnerRerender(size, color)

Spec == Init /\ [][Next]_vars

\* The demo composition as first rendered.
InitDemo ==
    /\ mounted = "Demo"
    /\ demo = DemoInitial
    /\ button = ButtonMount(DemoOpenButtonProps)
    /\ input \in {InputMount(DemoEmailProps(DemoInitial), r) : r \in RandomSuffixes}
    /\ card = CardMount(CardDefaults)
    /\ modal = ModalMount(DemoModalProps(DemoInitial))
    /\ alert = AlertMount(DemoInitial.showAlert, DemoAlertProps)
    /\ tooltip = [i \in TooltipIds |-> TooltipMount(TooltipDemoProps[i])]
    /\ badge = BadgeMount(BadgeDefaults)
    /\ spinner = SpinnerMount(SpinnerDefaults)
    /\ tut = TutorialInitial
    /\ api = UserListInitial
    /\ lastEvent = Event("mount", "", <<>>)
    /\ calls = <<>>

NextDemo ==
    \/ \E r \in RandomSuffixes : DemoClickOpenModal(r)
    \/ \E n \in {"root", "backdrop", "wrapper", "panel", "header", "title",
                 "closeButton", "content"}, r \in RandomSuffixes : DemoClickModal(n, r)
    \/ \E b \in {"cancel", "confirm"}, r \in RandomSuffixes : DemoClickModalButton(b, r)
    \/ \E r \in RandomSuffixes : DemoClickAlertClose(r)
    \/ \E text \in ShortTexts, r \in RandomSuffixes : DemoInputChange(text, r)
    \/ \E text \in ShortTexts : DemoPasswordChange(text)
    \/ \E i \in TooltipIds, enter \in BOOLEAN : DemoTooltipPointer(i, enter)

SpecDemo == InitDemo /\ [][NextDemo]_vars

\* The tutorial pages as first rendered.
InitTutorial ==
    /\ mounted = "Tutorial"
    /\ tut = TutorialInitial
    /\ button = ButtonMount(ButtonDefaults)
    /\ input = InputMount(InputDefaults, <<>>)
    /\ card = CardMount(CardDefaults)
    /\ modal = ModalMount(ModalDefaults)
    /\ alert = AlertMount(TRUE, AlertDefaults)
    /\ tooltip = [i \in TooltipIds |-> TooltipMount(TooltipDemoProps[i])]
    /\ badge = BadgeMount(BadgeDefaults)
    /\ spinner = SpinnerMount(SpinnerDefaults)
    /\ demo = DemoInitial
    /\ api = UserListInitial
    /\ lastEvent = Event("mount", "", <<>>)
    /\ calls = <<>>

NextTutorial ==
    \/ TutClickAddOne
    \/ \E v \in ShortTexts : TutNameChange(v)
    \/ TutClickToggle
    \/ TutClickChangeName
    \/ \E v \in TodoTexts : TutNewTodoChange(v)
    \/ \E now \in Instants : TutClickAdd(now)
    \/ \E b \in {"clickMe", "disabled"} : TutClickButton(b)

SpecTutorial == InitTutorial /\ [][NextTutorial]_vars

\* UserList as first rendered.
InitUserList ==
    /\ mounted = "UserList"
    /\ api = UserListInitial
    /\ button = ButtonMount(ButtonDefaults)
    /\ input = InputMount(InputDefaults, <<>>)
    /\ card = CardMount(CardDefaults)
    /\ modal = ModalMount(ModalDefaults)
    /\ alert = AlertMount(TRUE, AlertDefaults)
    /\ tooltip = [i \in TooltipIds |-> TooltipMount(TooltipDemoProps[i])]
    /\ badge = BadgeMount(BadgeDefaults)
    /\ spinner = SpinnerMount(SpinnerDefaults)
    /\ demo = DemoInitial
    /\ tut = TutorialInitial
    /\ lastEvent = Event("mount", "", <<>>)
    /\ calls = <<>>

NextUserList ==
    \/ \E c \in CallIds : FetchUsersCall(c)
    \/ \E c \in CallIds : FetchResolves(c)
    \/ \E c \in CallIds, users \in FetchedUsers : JsonResolves(c, users)
    \/ \E c \in CallIds : FetchFails(c)

SpecUserList == InitUserList /\ [][NextUserList]_vars

---------------------------------------------------------------------------
(* Properties *)

HasNode(tree, name) == \E x \in tree : x.name = name

OnClose == <<Call("onClose", <<>>)>>

\* C1: the button element's disabled flag is disabled OR loading for every
\* combination of the two, and a click on the Button while that flag is true
\* invokes no callback.
C1_DisabledBlocksClick ==
    /\ button.tree.disabled = (button.props.disabled \/ button.props.loading)
    /\ (lastEvent.type = "click" /\ lastEvent.target = "button" /\ button.tree.disabled)
          => calls = <<>>

\* C1 witness: a loading, not disabled Button with an onClick was clicked and
\* nothing was invoked.
C1_Witness ==
    /\ mounted = "Button"
    /\ lastEvent = Event("click", "button", <<>>)
    /\ button.props.loading /\ ~button.props.disabled
    /\ Provided(button.props.onClick)
    /\ calls = <<>>

\* C2: after every event and render the field displays exactly the value prop
\* of that render, and a change event handled by a caller that stores nothing
\* leaves the displayed value as it was.
C2_InputControlled ==
    /\ [](input.tree.field.value = input.props.value)
    /\ [][(lastEvent'.type = "change" /\ input.props.onChange = "noop")
             => input'.tree.field.value = input.tree.field.value]_vars

\* C2 witness: the user typed a non-empty text into an Input whose caller
\* passes "" with a no-op onChange, and the field displays "".
C2_Witness ==
    /\ mounted = "Input"
    /\ lastEvent.type = "change" /\ lastEvent.text /= <<>>
    /\ input.props.onChange = "noop"
    /\ input.props.value = <<>>
    /\ input.tree.field.value = <<>>

\* C3 as stated: closed renders nothing, and open renders the header iff the
\* title prop is given or showCloseButton is true.
C3_AsStated ==
    mounted = "Modal" =>
        /\ ~modal.props.isOpen => modal.tree = {}
        /\ modal.props.isOpen =>
              (HasNode(modal.tree, "header")
                  <=> (modal.props.title /= <<>> \/ modal.props.showCloseButton))

\* C3 amended: closed renders nothing, and open renders the header iff the
\* title is a non-empty string or showCloseButton is true.
C3_ModalOutput ==
    mounted = "Modal" =>
        /\ ~modal.props.isOpen => modal.tree = {}
        /\ modal.props.isOpen =>
              /\ modal.tree /= {}
              /\ HasNode(modal.tree, "header")
                    <=> (Truthy(modal.props.title) \/ modal.props.showCloseButton)

\* C3 witness: the caller opened a Modal given the empty title and no close
\* button, and it rendered its panel without a header.
C3_Witness ==
    /\ mounted = "Modal"
    /\ lastEvent = Event("render", "modal", <<>>)
    /\ modal.props.isOpen
    /\ modal.props.title = << <<>> >>
    /\ ~modal.props.showCloseButton
    /\ HasNode(modal.tree, "panel")
    /\ ~HasNode(modal.tree, "header")

\* C4: every Tooltip renders its bubble, holding content, iff isVisible, and
\* isVisible holds iff the last pointer event it handled was pointer-enter
\* (so it is hidden before any event).
C4_TooltipVisibility ==
    \A i \in TooltipIds :
        /\ tooltip[i].tree.bubble /= <<>> <=> tooltip[i].isVisible
        /\ tooltip[i].isVisible <=> tooltip[i].last = "enter"
        /\ tooltip[i].tree.bubble /= <<>>
              => tooltip[i].tree.bubble[1].content = tooltip[i].props.content

\* C4 witness: one Tooltip was entered and left and is hidden, another was
\* entered and shows its bubble.
C4_Witness ==
    /\ tooltip["top"].last = "leave" /\ tooltip["top"].tree.bubble = <<>>
    /\ tooltip["bottom"].last = "enter" /\ tooltip["bottom"].tree.bubble /= <<>>
    /\ lastEvent = Event("mouseleave", "top", <<>>)

\* C5: the Modal is rendered exactly while the caller passes isOpen = true,
\* and after a click on any of its elements handled by an onClose that does
\* nothing it is still open and rendered.
C5_ModalNeverClosesItself ==
    /\ modal.tree /= {} <=> modal.props.isOpen
    /\ (mounted = "Modal" /\ lastEvent.type = "click" /\ modal.props.onClose = "noop")
          => (modal.props.isOpen /\ modal.tree /= {})

\* C5 witness: the backdrop was clicked, onClose ran and did nothing, and the
\* Modal is still rendered.
C5_Witness ==
    /\ mounted = "Modal"
    /\ lastEvent = Event("click", "backdrop", <<>>)
    /\ calls = OnClose
    /\ modal.props.onClose = "noop"
    /\ HasNode(modal.tree, "backdrop")

\* C6: in the open Modal only the backdrop and the close button carry onClose,
\* the close button exists only with showCloseButton, and a click invokes
\* onClose once when it is on one of the two and not at all elsewhere.
C6_OnCloseSources ==
    mounted = "Modal" =>
        /\ \A x \in modal.tree :
              /\ x.onClick = <<"onClose">> <=> x.name \in {"backdrop", "closeButton"}
              /\ x.onClick = <<>> <=> x.name \notin {"backdrop", "closeButton"}
        /\ HasNode(modal.tree, "closeButton") => modal.props.showCloseButton
        /\ lastEvent.type = "click" =>
              calls = IF lastEvent.target \in {"backdrop", "closeButton"}
                      THEN OnClose ELSE <<>>

\* C6 witness: the close button was clicked and onClose was invoked.
C6_Witness ==
    /\ mounted = "Modal"
    /\ lastEvent = Event("click", "closeButton", <<>>)
    /\ modal.props.showCloseButton
    /\ calls = OnClose

\* C7: a change event invokes onChange exactly once, with the new text, and
\* the field then displays the caller's value: the new text for a caller that
\* stores it.
C7_ChangeInvokesOnChange ==
    (mounted = "Input" /\ lastEvent.type = "change") =>
        /\ calls = <<Call("onChange", <<lastEvent.text>>)>>
        /\ input.tree.field.value = input.props.value
        /\ input.props.onChange = "setInputValue" => input.props.value = lastEvent.text

\* C7 witness: the user typed "b", the caller stored it and the field shows it.
C7_Witness ==
    /\ mounted = "Input"
    /\ lastEvent = Event("change", "field", <<"b">>)
    /\ input.props.onChange = "setInputValue"
    /\ calls = <<Call("onChange", << <<"b">> >>)>>
    /\ input.tree.field.value = <<"b">>

\* C8 as stated: the header is rendered iff the title or the subtitle prop is
\* given, the title element iff title is given, the subtitle element iff
\* subtitle is given.
C8_AsStated ==
    mounted = "Card" =>
        /\ card.tree.header /= <<>>
              <=> (card.props.title /= <<>> \/ card.props.subtitle /= <<>>)
        /\ card.tree.header /= <<>> =>
              /\ card.tree.header[1].title /= <<>> <=> card.props.title /= <<>>
              /\ card.tree.header[1].subtitle /= <<>> <=> card.props.subtitle /= <<>>

\* C8 amended: the header is rendered iff title or subtitle is a non-empty
\* string, the title element iff title is non-empty, the subtitle element iff
\* subtitle is non-empty.
C8_CardHeader ==
    mounted = "Card" =>
        /\ card.tree.header /= <<>>
              <=> (Truthy(card.props.title) \/ Truthy(card.props.subtitle))
        /\ card.tree.header /= <<>> =>
              /\ card.tree.header[1].title /= <<>> <=> Truthy(card.props.title)
              /\ card.tree.header[1].subtitle /= <<>> <=> Truthy(card.props.subtitle)

\* C8 witness: a Card rendered again with a subtitle and no title renders the
\* header with the subtitle element only.
C8_Witness ==
    /\ mounted = "Card"
    /\ lastEvent = Event("render", "card", <<>>)
    /\ card.props.title = <<>> /\ card.props.subtitle = << <<"a">> >>
    /\ card.tree.header /= <<>>
    /\ card.tree.header[1].title = <<>>
    /\ card.tree.header[1].subtitle = << <<"a">> >>

\* C9: a rendered Alert has the close control iff onClose is given, a click
\* on the control invokes onClose, and a click elsewhere invokes nothing.
C9_AlertCloseControl ==
    mounted = "Alert" =>
        /\ alert.tree /= <<>> =>
              (alert.tree[1].close /= <<>> <=> Provided(alert.props.onClose))
        /\ lastEvent = Event("click", "close", <<>>) =>
              (Provided(alert.props.onClose) /\ calls = OnClose)
        /\ lastEvent = Event("click", "alert", <<>>) => calls = <<>>

\* C9 witness: the close control of an Alert with onClose was clicked and
\* onClose was invoked.
C9_Witness ==
    /\ mounted = "Alert"
    /\ lastEvent = Event("click", "close", <<>>)
    /\ Provided(alert.props.onClose)
    /\ calls = OnClose

\* C10: the Alert is rendered exactly while the caller renders it, and after a
\* click on its close control handled by an onClose that keeps rendering it,
\* it is still rendered.
C10_AlertNeverRemovesItself ==
    /\ alert.tree /= <<>> <=> alert.shown
    /\ (mounted = "Alert" /\ lastEvent = Event("click", "close", <<>>)
           /\ alert.props.onClose = <<"noop">>)
          => (alert.shown /\ alert.tree /= <<>>)

\* C10 witness: the close control was clicked, onClose ran and the caller kept
\* rendering the Alert, which is still there with its close control.
C10_Witness ==
    /\ mounted = "Alert"
    /\ lastEvent = Event("click", "close", <<>>)
    /\ calls = OnClose
    /\ alert.props.onClose = <<"noop">>
    /\ alert.tree /= <<>>
    /\ alert.tree[1].close /= <<>>

\* C11: a loading Button shows the loading indicator and "Loading..." and not
\* its children, a Button that is not loading shows its children and no
\* indicator, and a click on a loading Button invokes nothing.
C11_LoadingContent ==
    mounted = "Button" =>
        /\ button.props.loading =>
              /\ button.tree.content = <<"spinner", "Loading...">>
              /\ \A k \in 1..Len(button.tree.content) :
                    button.tree.content[k] /= button.props.children
        /\ ~button.props.loading => button.tree.content = <<button.props.children>>
        /\ (button.props.loading /\ lastEvent.type = "click") => calls = <<>>

\* C11 witness: the danger, large, loading Button with an onClick was clicked;
\* it shows the indicator and "Loading..." and nothing was invoked.
C11_Witness ==
    /\ mounted = "Button"
    /\ button.props.variant = "danger" /\ button.props.size = "large"
    /\ button.props.loading /\ ~button.props.disabled
    /\ Provided(button.props.onClick)
    /\ lastEvent = Event("click", "button", <<>>)
    /\ button.tree.content = <<"spinner", "Loading...">>
    /\ calls = <<>>

\* C12: the error text is rendered below the field iff error is a non-empty
\* string, the field has the error border iff error is a non-empty string and
\* the default border otherwise, whatever the value is; and a change of the
\* value changes neither.
C12_ErrorDisplay ==
    /\ [](mounted = "Input" =>
            /\ input.tree.error /= <<>> <=> Truthy(input.props.error)
            /\ input.tree.error /= <<>> => input.tree.error = input.props.error
            /\ input.tree.field.className[2] =
                  IF Truthy(input.props.error) THEN "border-red-300" ELSE "border-gray-300")
    /\ [][mounted = "Input" =>
            /\ input'.tree.error = input.tree.error
            /\ input'.tree.field.className[2] = input.tree.field.className[2]]_vars

\* C12 witness: a required Input without error was emptied by the user and
\* shows no error text and the default border.
C12_Witness ==
    /\ mounted = "Input"
    /\ lastEvent = Event("change", "field", <<>>)
    /\ input.props.required /\ input.props.value = <<>>
    /\ input.props.error = <<>>
    /\ input.tree.error = <<>>
    /\ input.tree.field.className[2] = "border-gray-300"

\* C13 as stated: a render pass that starts from the same props and the same
\* local state as the one before it produces the same output, for every
\* component.
C13_AsStated ==
    [][/\ button'.props = button.props => button'.tree = button.tree
       /\ input'.props = input.props => input'.tree = input.tree
       /\ card'.props = card.props => card'.tree = card.tree
       /\ modal'.props = modal.props => modal'.tree = modal.tree
       /\ (alert'.props = alert.props /\ alert'.shown = alert.shown)
             => alert'.tree = alert.tree
       /\ badge'.props = badge.props => badge'.tree = badge.tree
       /\ spinner'.props = spinner.props => spinner'.tree = spinner.tree
       /\ \A i \in TooltipIds :
             (tooltip'[i].props = tooltip[i].props
                 /\ tooltip'[i].isVisible = tooltip[i].isVisible)
             => tooltip'[i].tree = tooltip[i].tree]_vars

\* C14 as stated: the label's htmlFor is the field's id, which is the id prop
\* whenever one is given and a generated identifier when id is omitted.
C14_AsStated ==
    mounted = "Input" =>
        /\ input.tree.label /= <<>> => input.tree.label[1].htmlFor = input.tree.field.id
        /\ input.props.id /= <<>> => input.tree.field.id = input.props.id[1]
        /\ input.props.id = <<>>
              => input.tree.field.id \in {<<"input-">> \o r : r \in RandomSuffixes}

\* C14 amended: the label's htmlFor is the field's id, which is the id prop
\* when that is a non-empty string and a generated identifier when id is
\* omitted or empty.
C14_LabelTargetsField ==
    mounted = "Input" =>
        /\ input.tree.label /= <<>> => input.tree.label[1].htmlFor = input.tree.field.id
        /\ Truthy(input.props.id) => input.tree.field.id = input.props.id[1]
        /\ ~Truthy(input.props.id)
              => input.tree.field.id \in {<<"input-">> \o r : r \in RandomSuffixes}

\* C14 witness: after a change event an Input with a label and the id "a"
\* has the label pointing at the field "a".
C14_Witness ==
    /\ mounted = "Input"
    /\ lastEvent.type = "change"
    /\ input.props.id = << <<"a">> >>
    /\ input.tree.label /= <<>>
    /\ input.tree.label[1].htmlFor = <<"a">>
    /\ input.tree.field.id = <<"a">>

\* C15: a pointer-enter or pointer-leave on one Tooltip leaves every other
\* Tooltip's isVisible and output as they were.
C15_TooltipStatePrivate ==
    [][\A i \in TooltipIds :
          (lastEvent'.type \in {"mouseenter", "mouseleave"} /\ lastEvent'.target = i)
          => \A j \in TooltipIds \ {i} :
                /\ tooltip'[j].isVisible = tooltip[j].isVisible
                /\ tooltip'[j].tree = tooltip[j].tree]_vars

\* C15 witness: three Tooltips were entered, one of them was left again, the
\* fourth was never touched: only the two entered and not left are visible.
C15_Witness ==
    /\ mounted = "Tooltip"
    /\ tooltip["left"].isVisible /\ tooltip["right"].isVisible
    /\ ~tooltip["top"].isVisible /\ tooltip["top"].last = "leave"
    /\ ~tooltip["bottom"].isVisible /\ tooltip["bottom"].last = "none"
    /\ lastEvent = Event("mouseleave", "top", <<>>)

\* C17: in the demo the Modal's isOpen is the parent's isModalOpen, which starts
\* false; the Modal is rendered exactly when the last click on "Open Modal" or
\* on a closing control was on "Open Modal"; after a click on the backdrop, the
\* close button, Cancel or Confirm the flag is false.
C17_ModalFollowsLastClick ==
    /\ modal.props.isOpen = demo.isModalOpen
    /\ demo.lastModalClick = "none" => ~demo.isModalOpen
    /\ modal.tree /= {} <=> demo.lastModalClick = "open"
    /\ demo.lastModalClick \in {"backdrop", "closeButton", "cancel", "confirm"}
          => ~demo.isModalOpen

\* C17 witness: the modal was opened and Confirm has just been clicked.
C17_Witness ==
    /\ mounted = "Demo"
    /\ lastEvent = Event("click", "confirm", <<>>)
    /\ calls = <<Call("confirm", <<>>)>>
    /\ demo.lastModalClick = "confirm"
    /\ modal.tree = {}

\* C18: in the demo the info Alert is shown at first and exactly while
\* showAlert holds; once showAlert is false it stays false; only a click on the
\* Alert's close control changes showAlert.
C18_AlertStaysDismissed ==
    /\ demo.showAlert
    /\ [](alert.tree /= <<>> <=> demo.showAlert)
    /\ [][~demo.showAlert => ~demo'.showAlert]_vars
    /\ [][lastEvent'.target /= "close" => demo'.showAlert = demo.showAlert]_vars

\* C18 witness: the Alert was dismissed, text was typed, and the modal has just
\* been opened; the Alert is still gone.
C18_Witness ==
    /\ mounted = "Demo"
    /\ ~demo.showAlert /\ alert.tree = <<>>
    /\ demo.inputValue /= <<>>
    /\ demo.isModalOpen
    /\ lastEvent = Event("click", "openModal", <<>>)

\* C16: under the same events the components of the two tutorial files are in
\* the same states and render the same output.
C16_TutorialFilesEquivalent ==
    /\ tut.A = tut.B
    /\ SimplePropsStateDemo_A(tut.A) = SimplePropsStateDemo_B(tut.B)

\* C16 witness: every stateful component of the page has handled an event: the
\* counter was raised and switched on, the name typed, the user renamed, two
\* todos added, and the enabled Button has just raised its alert.
C16_Witness ==
    /\ mounted = "Tutorial"
    /\ tut.A.counter.count = MaxCount /\ tut.A.counter.isActive
    /\ tut.A.counter.name /= <<>>
    /\ tut.B.user.name = "Jane"
    /\ Len(tut.B.todoList.todos) = MaxTodos
    /\ tut.A.alerts = <<"Button clicked!">>
    /\ lastEvent = Event("button", "clickMe", <<>>)

NonBlank(t) == \E i \in 1..Len(t) : t[i] \notin WhiteSpace

\* C19: a click on Add with a non-whitespace character in newTodo appends one
\* item with text newTodo as typed and completed false after the earlier items,
\* which stay as they were, and empties newTodo; with newTodo empty or all
\* whitespace the click changes neither todos nor newTodo.  In both files.
C19_AddTodo ==
    [][lastEvent'.type = "add" =>
         \A f \in {"A", "B"} :
            LET t == tut[f].todoList
                u == tut'[f].todoList
            IN  IF NonBlank(t.newTodo)
                THEN /\ Len(u.todos) = Len(t.todos) + 1
                     /\ SubSeq(u.todos, 1, Len(t.todos)) = t.todos
                     /\ u.todos[Len(u.todos)].text = t.newTodo
                     /\ u.todos[Len(u.todos)].completed = FALSE
                     /\ u.newTodo = <<>>
                ELSE u = t]_vars

\* C19 witness: a todo typed with a leading space was added after an earlier
\* one, and a later click on Add with an all-whitespace field changed nothing.
C19_Witness ==
    /\ mounted = "Tutorial"
    /\ Len(tut.A.todoList.todos) = 2
    /\ tut.A.todoList.todos[1].text = <<"a">>
    /\ tut.A.todoList.todos[2].text = <<" ", "a">>
    /\ tut.A.todoList.newTodo = <<"\t">>
    /\ lastEvent.type = "add"

=============================================================================
